---- MODULE Spec2Model ----
(***************************************************************************)
(* The access backend of pypicloud (pypicloud/access/base.py): permission  *)
(* resolution, signup tokens, and dump/load of the access-control state.   *)
(* The storage primitives that base.py leaves abstract (user_permissions,  *)
(* _register, edit_user_group, ...) are those of a concrete backend.       *)
(***************************************************************************)
EXTENDS Naturals, Integers, Sequences, FiniteSets, TLC

VARIABLES
    store,            \* the backend's persisted state
    default_read,     \* self.default_read  (list of groups)
    default_write,    \* self.default_write (list of groups)
    signing_key,      \* self.signing_key   (None or a key)
    token_expiration, \* self.token_expiration (seconds)
    now,              \* time.time(), in clock ticks
    token,            \* the last token that get_signup_token returned
    expired,          \* a validation has rejected that token as expired
    answer,           \* the last query made in this state and what it returned
    phase,            \* "setup", "loaded", "reloaded", "migrated", "failed",
                      \* "retried" or "interleaved"
    loaded,           \* the snapshot given to load
    before,           \* the store as it was when load was called
    once,             \* the outcome of the first load(data): [st, raised]
    raised,           \* the last load raised
    target,           \* the store that load(dump()) has filled
    calls,            \* the mutation primitives that the last load invoked
    other,            \* the other administrator's operation during that load
    mutable           \* the backend's class attribute `mutable`

vars == <<store, default_read, default_write, signing_key, token_expiration,
          now, token, expired, answer, phase, loaded, before, once, raised,
          target, calls, other, mutable>>

-----------------------------------------------------------------------------
(* Bounds of the model *)

MaxTime == 9
MaxExpiration == 2
MaxFailAt == 3
MaxLandAt == 3

-----------------------------------------------------------------------------
(* The universe of names *)

Users == {"alice", "bob"}
Groups == {"dev", "admin"}
Packages == {"foo", "bar"}
Perms == {"read", "write"}

None == "None"
Everyone == "system.Everyone"
Authenticated == "system.Authenticated"

\* the names a group permission may be recorded under
GrantGroups == Groups \cup {"everyone", "authenticated", "admin"}

-----------------------------------------------------------------------------
(* Python containers *)

\* d[k] = v on a dict
DictSet(d, k, v) == [x \in DOMAIN d \cup {k} |-> IF x = k THEN v ELSE d[x]]

\* d.get(k, default)
DictGet(d, k, default) == IF k \in DOMAIN d THEN d[k] ELSE default

EmptyDict == <<>>

\* set(list)
ToSet(list) == {list[i] : i \in DOMAIN list}

\* a list holding the elements of a set, in some fixed order
RECURSIVE ToList(_)
ToList(S) ==
    IF S = {} THEN <<>>
    ELSE LET x == CHOOSE y \in S : TRUE IN <<x>> \o ToList(S \ {x})

\* a permission list as a backend returns it: read before write
PermList(S) ==
    (IF "read" \in S THEN <<"read">> ELSE <<>>) \o
    (IF "write" \in S THEN <<"write">> ELSE <<>>)

-----------------------------------------------------------------------------
(* The backend's persisted state, and its query primitives *)

NoUser == [status |-> "none", admin |-> FALSE, password |-> None]

EmptyStore ==
    [users          |-> [u \in Users |-> NoUser],
     groups         |-> {},
     members        |-> [g \in Groups |-> {}],
     user_perms     |-> [p \in Packages |-> [u \in Users |-> {}]],
     group_perms    |-> [p \in Packages |-> [g \in GrantGroups |-> {}]],
     allow_register |-> FALSE]

\* the users that exist, pending or approved
Present(s) == {u \in Users : s.users[u].status # "none"}

\* is_admin(username)
is_admin(s, username) ==
    username \in Users /\ s.users[username].status # "none"
                       /\ s.users[username].admin

\* groups(): all stored groups; the pseudo-groups are not stored
groups(s) == ToList(s.groups)

\* groups(username)
user_groups(s, username) ==
    ToList({g \in s.groups : username \in s.members[g]})

\* group_members(group)
group_members(s, group) ==
    IF group \in s.groups THEN ToList(s.members[group]) ELSE <<>>

\* user_permissions(package): only users that hold a permission have an entry
user_permissions(s, package) ==
    [u \in {x \in Users : s.user_perms[package][x] # {}} |->
        PermList(s.user_perms[package][u])]

\* group_permissions(package)
group_permissions(s, package) ==
    [g \in {x \in GrantGroups : s.group_perms[package][x] # {}} |->
        PermList(s.group_perms[package][g])]

\* user_package_permissions(username)
user_package_permissions(s, username) ==
    [p \in {x \in Packages : s.user_perms[x][username] # {}} |->
        PermList(s.user_perms[p][username])]

\* group_package_permissions(group)
group_package_permissions(s, group) ==
    [p \in {x \in Packages : s.group_perms[x][group] # {}} |->
        PermList(s.group_perms[p][group])]

\* user_data(): every approved user; pending users are excluded
user_data(s) ==
    LET names == ToList({u \in Users : s.users[u].status = "approved"})
    IN [i \in DOMAIN names |->
            [username |-> names[i], admin |-> s.users[names[i]].admin]]

\* user_data(username) is not None
user_data_found(s, username) ==
    username \in Users /\ s.users[username].status = "approved"

\* pending_users()
pending_users(s) == ToList({u \in Users : s.users[u].status = "pending"})

\* _get_password_hash(username)
get_password_hash(s, username) == s.users[username].password

-----------------------------------------------------------------------------
(* The backend's mutation primitives *)

\* _register(username, password_hash) fails on a username that is taken
register_raises(s, username) == s.users[username].status # "none"

register(s, username, password_hash) ==
    IF register_raises(s, username) THEN s
    ELSE [s EXCEPT !.users[username] =
            [status |-> "pending", admin |-> FALSE, password |-> password_hash]]

approve_user(s, username) ==
    IF s.users[username].status = "pending"
    THEN [s EXCEPT !.users[username].status = "approved"]
    ELSE s

set_user_admin(s, username, admin) ==
    IF s.users[username].status # "none"
    THEN [s EXCEPT !.users[username].admin = admin]
    ELSE s

create_group(s, group) == [s EXCEPT !.groups = @ \cup {group}]

\* a membership does not attach to a user or a group that does not exist
edit_user_group(s, username, group, add) ==
    IF username \notin Users \/ s.users[username].status = "none"
       \/ group \notin s.groups
    THEN s
    ELSE [s EXCEPT !.members[group] =
            IF add THEN @ \cup {username} ELSE @ \ {username}]

edit_user_permission(s, package, username, perm, add) ==
    [s EXCEPT !.user_perms[package][username] =
        IF add THEN @ \cup {perm} ELSE @ \ {perm}]

edit_group_permission(s, package, group, perm, add) ==
    [s EXCEPT !.group_perms[package][group] =
        IF add THEN @ \cup {perm} ELSE @ \ {perm}]

set_allow_register(s, allow) == [s EXCEPT !.allow_register = allow]

\* _set_password_hash(username, password_hash)
set_password_hash(s, username, password_hash) ==
    IF s.users[username].status # "none"
    THEN [s EXCEPT !.users[username].password = password_hash]
    ELSE s

\* delete_user(username): the user's record, memberships and grants go
delete_user(s, username) ==
    [s EXCEPT !.users[username] = NoUser,
              !.members = [g \in Groups |-> @[g] \ {username}],
              !.user_perms = [p \in Packages |-> [@[p] EXCEPT ![username] = {}]]]

-----------------------------------------------------------------------------
(* Principal model *)

\* group.startswith("group:"), over the names of the model
StartsWithGroup(group) == group \in {"group:" \o g : g \in GrantGroups}

group_to_principal(group) ==
    IF group \in {Everyone, Authenticated} \/ StartsWithGroup(group) THEN group
    ELSE IF group = "everyone" THEN Everyone
    ELSE IF group = "authenticated" THEN Authenticated
    ELSE "group:" \o group

groups_to_principals(list) == [i \in DOMAIN list |-> group_to_principal(list[i])]

user_principals(s, username) ==
    LET gs == user_groups(s, username) IN
    <<"user:" \o username, Everyone, Authenticated>>
    \o (IF is_admin(s, username) THEN <<"admin">> ELSE <<>>)
    \o [i \in DOMAIN gs |-> "group:" \o gs[i]]

\* pyramid's effective_principals(request), as the authentication policy
\* computes it from the request's userid
effective_principals(s, userid) ==
    IF userid = None THEN <<Everyone>> ELSE user_principals(s, userid)

\* in_group with the test for the anonymous user made last
in_group_anonymous_last(s, username, group) ==
    IF group \in {"everyone", Everyone} THEN TRUE
    ELSE IF group \in {"authenticated", Authenticated} THEN TRUE
    ELSE IF username = None THEN FALSE
    ELSE IF group = "admin" /\ is_admin(s, username) THEN TRUE
    ELSE group \in ToSet(user_groups(s, username))

in_group(s, username, group) ==
    IF group \in {"everyone", Everyone} THEN TRUE
    ELSE IF username = None THEN FALSE
    ELSE IF group \in {"authenticated", Authenticated} THEN TRUE
    ELSE IF group = "admin" /\ is_admin(s, username) THEN TRUE
    ELSE group \in ToSet(user_groups(s, username))

\* any((self.in_group(username, group) for group in groups))
RECURSIVE in_any_group(_, _, _)
in_any_group(s, username, list) ==
    IF list = <<>> THEN FALSE
    ELSE IF in_group(s, username, Head(list)) THEN TRUE
    ELSE in_any_group(s, username, Tail(list))

-----------------------------------------------------------------------------
(* Users *)

\* self.pwd_context.hash(password)
pwd_hash(password) == "hash:" \o password

\* self.pwd_context.verify(password, stored_pw)
pwd_verify(password, stored_pw) == stored_pw = pwd_hash(password)

\* verify_user without the test for a pending user
verify_user_without_pending(s, mut, username, password) ==
    LET stored_pw == get_password_hash(s, username)
    IN stored_pw # None /\ pwd_verify(password, stored_pw)

verify_user(s, mut, username, password) ==
    LET stored_pw == get_password_hash(s, username)
    IN IF mut /\ ~user_data_found(s, username) THEN FALSE
       ELSE stored_pw # None /\ pwd_verify(password, stored_pw)

\* need_admin looking at every user that exists, pending users too
need_admin_counting_pending(s, mut) ==
    IF ~mut THEN FALSE
    ELSE \A u \in Present(s) : ~s.users[u].admin

\* need_admin(): False on IAccessBackend, the loop over user_data() on
\* IMutableAccessBackend
need_admin(s, mut) ==
    IF ~mut THEN FALSE
    ELSE \A i \in DOMAIN user_data(s) : ~user_data(s)[i].admin

-----------------------------------------------------------------------------
(* Permission resolver *)

RECURSIVE AddUserPerms(_, _, _)
AddUserPerms(all_perms, perms, todo) ==
    IF todo = {} THEN all_perms
    ELSE LET user == CHOOSE u \in todo : TRUE
         IN AddUserPerms(DictSet(all_perms, "user:" \o user, perms[user]),
                         perms, todo \ {user})

RECURSIVE AddGroupPerms(_, _, _)
AddGroupPerms(all_perms, perms, todo) ==
    IF todo = {} THEN all_perms
    ELSE LET group == CHOOSE g \in todo : TRUE
         IN AddGroupPerms(DictSet(all_perms, group_to_principal(group), perms[group]),
                          perms, todo \ {group})

RECURSIVE AddDefaultRead(_, _)
AddDefaultRead(all_perms, principals) ==
    IF principals = <<>> THEN all_perms
    ELSE AddDefaultRead(DictSet(all_perms, Head(principals), <<"read">>),
                        Tail(principals))

\* AddDefaultWrite with the write permission replacing the principal's entry
RECURSIVE AddDefaultWrite_replacing(_, _)
AddDefaultWrite_replacing(all_perms, principals) ==
    IF principals = <<>> THEN all_perms
    ELSE AddDefaultWrite_replacing(
            DictSet(all_perms, Head(principals), <<"write">>), Tail(principals))

RECURSIVE AddDefaultWrite(_, _)
AddDefaultWrite(all_perms, principals) ==
    IF principals = <<>> THEN all_perms
    ELSE LET principal == Head(principals)
         IN AddDefaultWrite(
                IF principal \in DOMAIN all_perms
                THEN DictSet(all_perms, principal, all_perms[principal] \o <<"write">>)
                ELSE DictSet(all_perms, principal, <<"write">>),
                Tail(principals))

ExplicitPerms(s, package) ==
    LET up == user_permissions(s, package)
        gp == group_permissions(s, package)
    IN AddGroupPerms(AddUserPerms(EmptyDict, up, DOMAIN up), gp, DOMAIN gp)

\* allowed_permissions with the defaults added whatever the explicit grants
allowed_permissions_always_default(s, dread, dwrite, package) ==
    LET RECURSIVE Underlay(_, _, _)
        Underlay(all_perms, defaults, todo) ==
            IF todo = {} THEN all_perms
            ELSE LET principal == CHOOSE p \in todo : TRUE
                 IN Underlay(IF principal \in DOMAIN all_perms THEN all_perms
                             ELSE DictSet(all_perms, principal, defaults[principal]),
                             defaults, todo \ {principal})
        defaults == AddDefaultWrite(
                        AddDefaultRead(EmptyDict, groups_to_principals(dread)),
                        groups_to_principals(dwrite))
    IN Underlay(ExplicitPerms(s, package), defaults, DOMAIN defaults)

allowed_permissions(s, dread, dwrite, package) ==
    LET all_perms == ExplicitPerms(s, package)
    IN IF DOMAIN all_perms = {}
       THEN AddDefaultWrite(AddDefaultRead(all_perms, groups_to_principals(dread)),
                            groups_to_principals(dwrite))
       ELSE all_perms

\* the keys of a list of keys in the order a dict first receives them
RECURSIVE FirstInserted(_, _)
FirstInserted(seen, list) ==
    IF list = <<>> THEN <<>>
    ELSE IF Head(list) \in seen THEN FirstInserted(seen, Tail(list))
    ELSE <<Head(list)>> \o FirstInserted(seen \cup {Head(list)}, Tail(list))

\* the order in which six.iteritems(permissions) gives the principals of
\* allowed_permissions(package): the order in which they were inserted
allowed_order(s, dread, dwrite, package) ==
    LET users == ToList(DOMAIN user_permissions(s, package))
        grps == ToList(DOMAIN group_permissions(s, package))
        explicit == [i \in DOMAIN users |-> "user:" \o users[i]]
                    \o groups_to_principals(grps)
    IN IF explicit = <<>>
       THEN FirstInserted({}, groups_to_principals(dread)
                              \o groups_to_principals(dwrite))
       ELSE FirstInserted({}, explicit)

\* for perm in perms: acl.append((Allow, principal, perm))
RECURSIVE AclEntries(_, _)
AclEntries(permissions, order) ==
    IF order = <<>> THEN <<>>
    ELSE [i \in DOMAIN permissions[Head(order)] |->
            <<"Allow", Head(order), permissions[Head(order)][i]>>]
         \o AclEntries(permissions, Tail(order))

get_acl(s, dread, dwrite, package) ==
    AclEntries(allowed_permissions(s, dread, dwrite, package),
               allowed_order(s, dread, dwrite, package))

RECURSIVE AnyPrincipalHas(_, _, _)
AnyPrincipalHas(perms, principals, perm) ==
    IF principals = <<>> THEN FALSE
    ELSE IF perm \in ToSet(DictGet(perms, Head(principals), <<>>)) THEN TRUE
    ELSE AnyPrincipalHas(perms, Tail(principals), perm)

\* has_permission without the admin shortcut
has_permission_without_admin(s, dread, dwrite, userid, package, perm) ==
    AnyPrincipalHas(allowed_permissions(s, dread, dwrite, package),
                    effective_principals(s, userid), perm)

has_permission(s, dread, dwrite, userid, package, perm) ==
    IF userid # None /\ is_admin(s, userid) THEN TRUE
    ELSE AnyPrincipalHas(allowed_permissions(s, dread, dwrite, package),
                         effective_principals(s, userid), perm)

-----------------------------------------------------------------------------
(* Text: a str is a sequence of one-character strings *)

Digits == <<"0", "1", "2", "3", "4", "5", "6", "7", "8", "9">>
HexDigits == Digits \o <<"a", "b", "c", "d", "e", "f">>
Alphabet == HexDigits \o <<":", "-", "+", "g", "u", "x">>

CharCode(c) == CHOOSE i \in DOMAIN Alphabet : Alphabet[i] = c

IsDigit(c) == \E i \in DOMAIN Digits : Digits[i] = c
DigitVal(c) == (CHOOSE i \in DOMAIN Digits : Digits[i] = c) - 1

RECURSIVE DecNat(_)
DecNat(n) ==
    IF n < 10 THEN <<Digits[n + 1]>>
    ELSE DecNat(n \div 10) \o <<Digits[(n % 10) + 1]>>

\* "%d" % n
FormatD(n) == IF n < 0 THEN <<"-">> \o DecNat(0 - n) ELSE DecNat(n)

RECURSIVE NatVal(_)
NatVal(str) ==
    IF str = <<>> THEN 0
    ELSE NatVal(SubSeq(str, 1, Len(str) - 1)) * 10 + DigitVal(str[Len(str)])

Unsigned(str) == IF str # <<>> /\ str[1] \in {"-", "+"} THEN Tail(str) ELSE str

\* int(str) raises ValueError unless str is an optional sign and digits
IntRaises(str) ==
    Unsigned(str) = <<>> \/ \E i \in DOMAIN Unsigned(str) : ~IsDigit(Unsigned(str)[i])

\* int(str)
IntVal(str) ==
    IF str[1] = "-" THEN 0 - NatVal(Unsigned(str)) ELSE NatVal(Unsigned(str))

\* str.split(sep)
RECURSIVE Split(_, _)
Split(str, sep) ==
    IF \A i \in DOMAIN str : str[i] # sep THEN <<str>>
    ELSE LET k == CHOOSE i \in DOMAIN str :
                    str[i] = sep /\ \A j \in 1..(i - 1) : str[j] # sep
         IN <<SubSeq(str, 1, k - 1)>> \o Split(SubSeq(str, k + 1, Len(str)), sep)

-----------------------------------------------------------------------------
(* Signup tokens *)

\* clock ticks in a second: time.time() is a float
TicksPerSecond == 2

Keys == {"k1", "k2"}
KeyCode(key) == IF key = "k1" THEN 1 ELSE 2

RECURSIVE Mix(_, _)
Mix(h, msg) ==
    IF msg = <<>> THEN h
    ELSE Mix((h * 31 + CharCode(Head(msg))) % 256, Tail(msg))

\* hmac.new(key, msg, hashlib.sha256).hexdigest(): a keyed digest of msg in
\* lowercase hex, here two digits long
HexDigest(key, msg) ==
    LET h == Mix(KeyCode(key), msg)
    IN <<HexDigits[(h \div 16) + 1], HexDigits[(h % 16) + 1]>>

Raise(error) == [kind |-> "raise", value |-> <<>>, error |-> error]
Return(value) == [kind |-> "return", value |-> value, error |-> ""]
ReturnNone == [kind |-> "none", value |-> <<>>, error |-> ""]

\* "%s:%d" % (username, timestamp), for a timestamp in seconds
Message(username, seconds) == username \o <<":">> \o FormatD(seconds)

\* _hmac(username, timestamp)[1], for a timestamp in seconds
hmac_signature(key, username, seconds) ==
    HexDigest(key, Message(username, seconds))

\* get_signup_token(username), called when time.time() is `time` ticks
get_signup_token(key, time, username) ==
    IF key = None THEN Raise("RuntimeError")
    ELSE Return(Message(username, time \div TicksPerSecond) \o <<":">>
                \o hmac_signature(key, username, time \div TicksPerSecond))

\* TokenExpired with the boundary excluded from the window
TokenExpired_at_boundary(issued, expiration, time) ==
    (issued + expiration) * TicksPerSecond <= time

\* issued + self.token_expiration < time.time()
TokenExpired(issued, expiration, time) ==
    (issued + expiration) * TicksPerSecond < time

\* validate_signup_token without the comparison of the signatures
validate_signup_token_unsigned(key, expiration, time, tok) ==
    IF key = None THEN ReturnNone
    ELSE LET all == Split(tok, ":")
             pieces == SubSeq(all, 1, Len(all) - 1)
         IN IF Len(pieces) < 2 THEN Raise("IndexError")
            ELSE IF IntRaises(pieces[2]) THEN Raise("ValueError")
            ELSE IF TokenExpired(IntVal(pieces[2]), expiration, time) THEN ReturnNone
            ELSE Return(pieces[1])

\* validate_signup_token without the check that a signing key is set
validate_signup_token_unguarded(key, expiration, time, tok) ==
    LET all == Split(tok, ":")
        signature == all[Len(all)]
        pieces == SubSeq(all, 1, Len(all) - 1)
    IN IF Len(pieces) < 2 THEN Raise("IndexError")
       ELSE IF IntRaises(pieces[2]) THEN Raise("ValueError")
       ELSE IF TokenExpired(IntVal(pieces[2]), expiration, time) THEN ReturnNone
       ELSE IF key = None THEN Raise("RuntimeError")
       ELSE IF signature # hmac_signature(key, pieces[1], IntVal(pieces[2]))
            THEN ReturnNone
       ELSE Return(pieces[1])

\* validate_signup_token(token), called when time.time() is `time` ticks
validate_signup_token(key, expiration, time, tok) ==
    IF key = None THEN ReturnNone
    ELSE LET all == Split(tok, ":")
             signature == all[Len(all)]
             pieces == SubSeq(all, 1, Len(all) - 1)
         IN IF Len(pieces) < 2 THEN Raise("IndexError")
            ELSE IF IntRaises(pieces[2]) THEN Raise("ValueError")
            ELSE IF TokenExpired(IntVal(pieces[2]), expiration, time) THEN ReturnNone
            ELSE IF signature # hmac_signature(key, pieces[1], IntVal(pieces[2]))
                 THEN ReturnNone
            ELSE Return(pieces[1])

\* allow_register_token()
allow_register_token(key) == key # None

-----------------------------------------------------------------------------
(* dump *)

\* for group in groups: for perm in group_package_permissions(group):
\*     packages["groups"][package][group] = perm["permissions"]
RECURSIVE DumpPerms(_, _, _, _)
DumpPerms(packages, name, perms, todo) ==
    IF todo = {} THEN packages
    ELSE LET package == CHOOSE p \in todo : TRUE
         IN DumpPerms(DictSet(packages, package,
                              DictSet(DictGet(packages, package, EmptyDict),
                                      name, perms[package])),
                      name, perms, todo \ {package})

RECURSIVE DumpGroupPerms(_, _, _)
DumpGroupPerms(s, packages, list) ==
    IF list = <<>> THEN packages
    ELSE LET perms == group_package_permissions(s, Head(list))
         IN DumpGroupPerms(s, DumpPerms(packages, Head(list), perms, DOMAIN perms),
                           Tail(list))

RECURSIVE DumpUserPerms(_, _, _)
DumpUserPerms(s, packages, list) ==
    IF list = <<>> THEN packages
    ELSE LET perms == user_package_permissions(s, Head(list).username)
         IN DumpUserPerms(s, DumpPerms(packages, Head(list).username, perms,
                                       DOMAIN perms),
                          Tail(list))

dump(s) ==
    LET users == [i \in DOMAIN user_data(s) |->
                    [username |-> user_data(s)[i].username,
                     admin    |-> user_data(s)[i].admin,
                     password |-> get_password_hash(s, user_data(s)[i].username)]]
        pending == [i \in DOMAIN pending_users(s) |->
                    [username |-> pending_users(s)[i],
                     password |-> get_password_hash(s, pending_users(s)[i])]]
    IN [allow_register |-> s.allow_register,
        groups         |-> [g \in ToSet(groups(s)) |-> group_members(s, g)],
        users          |-> users,
        packages       |-> [users  |-> DumpUserPerms(s, EmptyDict, users),
                            groups |-> DumpGroupPerms(s, EmptyDict, groups(s))],
        pending_users  |-> pending]

-----------------------------------------------------------------------------
(* load: each step takes and gives the run of load so far,
   [st: the store, raised: an exception has propagated out of load,
    calls: the mutation primitives invoked so far, each with the store it was
    invoked on, failing/fail_at: the backing store fails, in place of the
    call made after fail_at calls, other: the operation of another
    administrator that reaches the store while load runs] *)

\* str(bool)
Str(b) == IF b THEN "True" ELSE "False"

\* no other administrator
NoOther ==
    [op |-> "none", arg |-> <<>>, at |-> 0, late |-> FALSE, landed |-> TRUE,
     seen |-> EmptyStore]

\* the atomic operation of the other administrator, on the store
ApplyOther(s, operation) ==
    CASE operation.op = "_register" ->
            register(s, operation.arg[1], operation.arg[2])
      [] operation.op = "edit_user_group" ->
            edit_user_group(s, operation.arg[1], operation.arg[2], TRUE)
      [] operation.op = "edit_group_permission" ->
            edit_group_permission(s, operation.arg[1], operation.arg[2], operation.arg[3], TRUE)
      [] operation.op = "edit_user_permission" ->
            edit_user_permission(s, operation.arg[1], operation.arg[2], operation.arg[3], TRUE)
      [] OTHER -> s

\* the other administrator's operation reaches the store once load has made
\* other.at calls: before load reads the store for its next call, or (late)
\* between those reads and the call
Land(r, late) ==
    IF /\ ~r.raised
       /\ ~r.other.landed
       /\ r.other.late = late
       /\ Len(r.calls) = r.other.at
    THEN [r EXCEPT !.st = ApplyOther(@, r.other),
                   !.other.landed = TRUE,
                   !.other.seen = r.st]
    ELSE r

\* load is about to call a primitive, its reads of the store behind it
Arrive(r) == Land(r, TRUE)

\* one call of a mutation primitive in load, on the run r that has arrived at
\* it: s is the store the primitive leaves, fails says that the primitive
\* itself raises
Invoke(r, step, op, arg, fails, s) ==
    IF r.raised THEN r
    ELSE IF r.failing /\ Len(r.calls) = r.fail_at THEN [r EXCEPT !.raised = TRUE]
    ELSE LET call == [step |-> step, op |-> op, arg |-> arg, pre |-> r.st]
         IN IF fails THEN [r EXCEPT !.raised = TRUE, !.calls = Append(@, call)]
            ELSE Land([r EXCEPT !.st = s, !.calls = Append(@, call)], FALSE)

\* user_exists(username), with pending_users as read when load began
user_exists(pending, s, username) ==
    username \in pending \/ user_data_found(s, username)

\* user.get("admin", False)
user_get_admin(user) == IF "admin" \in DOMAIN user THEN user.admin ELSE FALSE

\* self._register(user["username"], user["password"])
LoadRegister(r, step, user) ==
    LET a == Arrive(r)
    IN Invoke(a, step, "_register", <<user.username, user.password>>,
              register_raises(a.st, user.username),
              register(a.st, user.username, user.password))

\* self.approve_user(user["username"])
LoadApprove(r, user) ==
    LET a == Arrive(r)
    IN Invoke(a, "users", "approve_user", <<user.username>>, FALSE,
              approve_user(a.st, user.username))

\* self.set_user_admin(user["username"], user.get("admin", False))
LoadSetAdmin(r, user) ==
    LET a == Arrive(r)
    IN Invoke(a, "users", "set_user_admin",
              <<user.username, Str(user_get_admin(user))>>, FALSE,
              set_user_admin(a.st, user.username, user_get_admin(user)))

\* LoadUser leaving the admin flag of a user that exists as it is
LoadUser_keeping_admin(pending, r, user) ==
    IF user_exists(pending, r.st, user.username) THEN r
    ELSE LoadSetAdmin(LoadApprove(LoadRegister(r, "users", user), user), user)

\* LoadUser approving every declared user
LoadUser_approving(pending, r, user) ==
    LoadSetAdmin(
        LoadApprove(IF user_exists(pending, r.st, user.username) THEN r
                    ELSE LoadRegister(r, "users", user),
                    user),
        user)

\* the body of: for user in data["users"]
LoadUser(pending, r, user) ==
    LoadSetAdmin(
        IF user_exists(pending, r.st, user.username) THEN r
        ELSE LoadApprove(LoadRegister(r, "users", user), user),
        user)

RECURSIVE LoadUsers(_, _, _)
LoadUsers(pending, r, users) ==
    IF users = <<>> THEN r
    ELSE LoadUsers(pending, LoadUser(pending, r, Head(users)), Tail(users))

\* for member in add_members: self.edit_user_group(member, group, True)
RECURSIVE AddMembers(_, _, _)
AddMembers(r, group, add_members) ==
    IF add_members = {} THEN r
    ELSE LET member == CHOOSE m \in add_members : TRUE
             a == Arrive(r)
         IN AddMembers(Invoke(a, "groups", "edit_user_group",
                              <<member, group, Str(TRUE)>>, FALSE,
                              edit_user_group(a.st, member, group, TRUE)),
                       group, add_members \ {member})

\* if not self.group_members(group): self.create_group(group)
LoadCreateGroup(r, group) ==
    IF group_members(r.st, group) = <<>>
    THEN LET a == Arrive(r)
         IN Invoke(a, "groups", "create_group", <<group>>, FALSE,
                   create_group(a.st, group))
    ELSE r

\* LoadGroup making the membership equal to the declared one
LoadGroup_replacing(r, group, members) ==
    LET r1 == LoadCreateGroup(r, group)
    IN IF r1.raised THEN r1
       ELSE [r1 EXCEPT !.st = [r1.st EXCEPT !.members[group] =
                                {m \in ToSet(members) : m \in Present(r1.st)}]]

\* the body of: for group, members in data["groups"]
LoadGroup(r, group, members) ==
    LET r1 == LoadCreateGroup(r, group)
        current_members == group_members(r1.st, group)
        add_members == ToSet(members) \ ToSet(current_members)
    IN AddMembers(r1, group, add_members)

RECURSIVE LoadGroups(_, _, _)
LoadGroups(r, data_groups, todo) ==
    IF todo = {} THEN r
    ELSE LET group == CHOOSE g \in todo : TRUE
         IN LoadGroups(LoadGroup(r, group, data_groups[group]), data_groups,
                       todo \ {group})

\* the body of: for user in data.get("pending_users", [])
LoadPendingUser(pending, r, user) ==
    IF user_exists(pending, r.st, user.username) THEN r
    ELSE LoadRegister(r, "pending_users", user)

RECURSIVE LoadPendingUsers(_, _, _)
LoadPendingUsers(pending, r, users) ==
    IF users = <<>> THEN r
    ELSE LoadPendingUsers(pending, LoadPendingUser(pending, r, Head(users)),
                          Tail(users))

\* for perm in permissions: edit_group_permission(package, group, perm, True)
RECURSIVE GrantGroup(_, _, _, _)
GrantGroup(r, package, group, permissions) ==
    IF permissions = <<>> THEN r
    ELSE LET a == Arrive(r)
         IN GrantGroup(
                Invoke(a, "group_permissions", "edit_group_permission",
                       <<package, group, Head(permissions), Str(TRUE)>>, FALSE,
                       edit_group_permission(a.st, package, group,
                                             Head(permissions), TRUE)),
                package, group, Tail(permissions))

RECURSIVE GrantGroupsOf(_, _, _, _)
GrantGroupsOf(r, package, package_groups, todo) ==
    IF todo = {} THEN r
    ELSE LET group == CHOOSE g \in todo : TRUE
         IN GrantGroupsOf(GrantGroup(r, package, group, package_groups[group]),
                          package, package_groups, todo \ {group})

RECURSIVE LoadGroupPerms(_, _, _)
LoadGroupPerms(r, packages, todo) ==
    IF todo = {} THEN r
    ELSE LET package == CHOOSE p \in todo : TRUE
         IN LoadGroupPerms(GrantGroupsOf(r, package, packages[package],
                                         DOMAIN packages[package]),
                           packages, todo \ {package})

\* for perm in permissions: edit_user_permission(package, user, perm, True)
RECURSIVE GrantUser(_, _, _, _)
GrantUser(r, package, user, permissions) ==
    IF permissions = <<>> THEN r
    ELSE LET a == Arrive(r)
         IN GrantUser(
                Invoke(a, "user_permissions", "edit_user_permission",
                       <<package, user, Head(permissions), Str(TRUE)>>, FALSE,
                       edit_user_permission(a.st, package, user,
                                            Head(permissions), TRUE)),
                package, user, Tail(permissions))

RECURSIVE GrantUsersOf(_, _, _, _)
GrantUsersOf(r, package, package_users, todo) ==
    IF todo = {} THEN r
    ELSE LET user == CHOOSE u \in todo : TRUE
         IN GrantUsersOf(GrantUser(r, package, user, package_users[user]),
                         package, package_users, todo \ {user})

RECURSIVE LoadUserPerms(_, _, _)
LoadUserPerms(r, packages, todo) ==
    IF todo = {} THEN r
    ELSE LET package == CHOOSE p \in todo : TRUE
         IN LoadUserPerms(GrantUsersOf(r, package, packages[package],
                                       DOMAIN packages[package]),
                          packages, todo \ {package})

\* self.set_allow_register(data["allow_register"])
LoadAllowRegister(r, allow) ==
    LET a == Arrive(r)
    IN Invoke(a, "allow_register", "set_allow_register", <<Str(allow)>>, FALSE,
              set_allow_register(a.st, allow))

\* the run of load as it begins
Begin(s, failing, fail_at, operation) ==
    [st |-> s, raised |-> FALSE, calls |-> <<>>,
     failing |-> failing, fail_at |-> fail_at, other |-> operation]

\* LoadSteps with the pending users registered before the groups are filled
LoadSteps_pending_first(pending, r0, data) ==
    LET r1 == LoadUsers(pending, r0, data.users)
        r2 == LoadPendingUsers(pending, r1, DictGet(data, "pending_users", <<>>))
        r3 == LoadGroups(r2, data.groups, DOMAIN data.groups)
        r4 == LoadGroupPerms(r3, data.packages.groups, DOMAIN data.packages.groups)
        r5 == LoadUserPerms(r4, data.packages.users, DOMAIN data.packages.users)
    IN LoadAllowRegister(r5, data.allow_register)

\* the loops of load, in order, with pending_users as read when load began
LoadSteps(pending, r0, data) ==
    LET r1 == LoadUsers(pending, r0, data.users)
        r2 == LoadGroups(r1, data.groups, DOMAIN data.groups)
        r3 == LoadPendingUsers(pending, r2, DictGet(data, "pending_users", <<>>))
        r4 == LoadGroupPerms(r3, data.packages.groups, DOMAIN data.packages.groups)
        r5 == LoadUserPerms(r4, data.packages.users, DOMAIN data.packages.users)
    IN LoadAllowRegister(r5, data.allow_register)

\* load(data) on a backing store that fails, if failing, after fail_at calls
load_run(s, data, failing, fail_at) ==
    LoadSteps(ToSet(pending_users(s)), Begin(s, failing, fail_at, NoOther), data)

\* load(data) while another administrator's operation reaches the store
load_interleaved(s, data, operation) ==
    LoadSteps(ToSet(pending_users(s)), Begin(s, FALSE, 0, operation), data)

\* load(data)
load(s, data) == load_run(s, data, FALSE, 0)

-----------------------------------------------------------------------------
(* Inputs *)

\* configured (default_read, default_write) lists
DefaultLists ==
    { <<<<"authenticated">>, <<>>>>,
      <<<<"everyone">>, <<"authenticated">>>>,
      <<<<"group:dev", "everyone">>, <<"dev", "dev">>>>,
      <<<<>>, <<>>>> }

\* the grants that are made and revoked: <<package, user or group, permission>>
UserGrants ==
    {<<"foo", "alice", "read">>, <<"foo", "alice", "write">>,
     <<"foo", "bob", "read">>, <<"foo", "bob", "write">>,
     <<"bar", "bob", "read">>}
GroupGrants ==
    {<<"foo", "dev", "read">>, <<"foo", "dev", "write">>,
     <<"foo", "everyone", "read">>}

\* the grants that are made and revoked before an ACL is asked for
AclUserGrants == {<<"foo", "alice", "read">>, <<"foo", "bob", "write">>}
AclGroupGrants ==
    {<<"foo", "dev", "read">>, <<"foo", "admin", "read">>,
     <<"foo", "everyone", "write">>}

\* a store that holds two approved users and a group
SeededStore ==
    create_group(
        approve_user(register(
            approve_user(register(EmptyStore, "alice", "h1"), "alice"),
            "bob", "h1"), "bob"),
        "dev")

\* usernames a signup token is asked for
TokenUsers == {<<"u">>, <<"a", "b">>, <<"u", ":", "x">>}

\* characters that replace one character of a token's signature
AlterChars == {"0", "f", "g", ":"}

\* the signature of an issued token is what follows its last ":"
SignatureStart(str) == Len(str) - 1

AlteredSignature(str) ==
    {[str EXCEPT ![i] = c] : i \in SignatureStart(str)..Len(str), c \in AlterChars}
    \ {str}

MalformedTokens ==
    { <<>>, <<"u">>, <<":">>, <<"u", ":", "1">>,
      <<"u", ":", "x", ":", "0", "0">>,
      <<"u", ":", ":", "a", "b">>,
      <<"u", ":", "-", "1", ":", "0", "0">> }

\* the snapshots given to load
UserEntry(username, admin) ==
    [username |-> username, password |-> "h2", admin |-> admin]
PendingEntry(username) == [username |-> username, password |-> "h2"]

SnapUsers(alice, bob) ==
    (IF alice = "absent" THEN <<>> ELSE <<UserEntry("alice", alice = "admin")>>)
    \o (IF bob = "user" THEN <<UserEntry("bob", FALSE)>> ELSE <<>>)

SnapPending(bob) == IF bob = "pending" THEN <<PendingEntry("bob")>> ELSE <<>>

SnapGroups ==
    {EmptyDict, "dev" :> <<>>, "dev" :> <<"bob">>, "dev" :> <<"alice", "bob">>}

NoGrants == [users |-> EmptyDict, groups |-> EmptyDict]

SnapGrants ==
    { [users  |-> "foo" :> ("alice" :> <<"write">>),
       groups |-> EmptyDict],
      [users  |-> EmptyDict,
       groups |-> "foo" :> ("everyone" :> <<"read">>)],
      [users  |-> "foo" :> ("bob" :> <<"read", "write">>),
       groups |-> ("foo" :> ("dev" :> <<"read">>)) @@ ("bar" :> ("dev" :> <<"write">>))] }

Snapshots ==
    { [allow_register |-> FALSE, groups |-> g, users |-> SnapUsers(a, b),
       pending_users |-> SnapPending(b), packages |-> NoGrants] :
        a \in {"absent", "user", "admin"}, b \in {"absent", "user", "pending"},
        g \in SnapGroups }
    \cup
    { [allow_register |-> TRUE, groups |-> "dev" :> <<"alice">>,
       users |-> SnapUsers("user", "absent"), packages |-> p] : p \in SnapGrants }
    \cup
    { [allow_register |-> TRUE, groups |-> EmptyDict,
       users |-> <<[username |-> "alice", password |-> "h2"]>>,
       pending_users |-> <<PendingEntry("bob"), PendingEntry("bob")>>,
       packages |-> NoGrants] }
    \cup
    { [allow_register |-> FALSE, groups |-> EmptyDict,
       users |-> <<UserEntry("bob", FALSE)>>,
       pending_users |-> <<PendingEntry("bob")>>,
       packages |-> NoGrants] }

\* plaintext passwords
Passwords == {"pw1", "pw2"}

\* the stores of a backend that is not mutable: one user, admin or not
ConfiguredStores ==
    { edit_user_group(
        create_group(
            set_user_admin(
                approve_user(register(EmptyStore, "alice", pwd_hash("pw1")), "alice"),
                "alice", admin),
            "dev"),
        "alice", "dev", TRUE) : admin \in BOOLEAN }

\* the snapshots loaded between the other mutations of the users
UserSnapshots == {d \in Snapshots : d.groups = EmptyDict /\ d.packages = NoGrants}

\* the group names in_group is asked about, and the lists in_any_group is
GroupNames == {"everyone", "authenticated", "admin", "dev", Everyone, Authenticated}
GroupLists == {<<>>, <<"dev">>, <<"dev", "admin">>, <<"admin", "everyone">>}

\* the operations of the other administrator
OtherOperations ==
    { [op |-> "_register", arg |-> <<"bob", "h3">>],
      [op |-> "edit_user_group", arg |-> <<"alice", "dev">>],
      [op |-> "edit_group_permission", arg |-> <<"foo", "dev", "write">>],
      [op |-> "edit_user_permission", arg |-> <<"foo", "alice", "read">>] }

-----------------------------------------------------------------------------
(* State *)

NoToken == [str |-> <<>>, username |-> <<>>, at |-> 0, issued |-> FALSE]
NoAnswer == [op |-> "none", arg |-> <<>>, result |-> <<>>]
NoSnapshot == [allow_register |-> FALSE, groups |-> EmptyDict, users |-> <<>>,
               packages |-> NoGrants]

InitCommon ==
    /\ now = 0
    /\ token = NoToken
    /\ expired = FALSE
    /\ answer = NoAnswer
    /\ phase = "setup"
    /\ loaded = NoSnapshot
    /\ before = EmptyStore
    /\ once = [st |-> EmptyStore, raised |-> FALSE]
    /\ raised = FALSE
    /\ target = EmptyStore
    /\ calls = <<>>
    /\ other = NoOther

config == <<default_read, default_write, signing_key, token_expiration, mutable>>
tokens == <<now, token, expired>>
loading == <<phase, loaded, before, once, raised, target, calls, other>>

-----------------------------------------------------------------------------
(* Mutations of the store *)

Mutate(s) ==
    /\ mutable
    /\ phase = "setup"
    /\ store' = s
    /\ answer' = NoAnswer
    /\ UNCHANGED <<config, tokens, loading>>

Register(username, password_hash) ==
    Mutate(register(store, username, password_hash))

ApproveUser(username) == Mutate(approve_user(store, username))

SetUserAdmin(username, admin) == Mutate(set_user_admin(store, username, admin))

CreateGroup(group) == Mutate(create_group(store, group))

EditUserGroup(username, group, add) ==
    Mutate(edit_user_group(store, username, group, add))

EditUserPermission(package, username, perm, add) ==
    Mutate(edit_user_permission(store, package, username, perm, add))

EditGroupPermission(package, group, perm, add) ==
    Mutate(edit_group_permission(store, package, group, perm, add))

SetAllowRegister(allow) == Mutate(set_allow_register(store, allow))

\* register(username, password)
RegisterUser(username, password) ==
    Mutate(register(store, username, pwd_hash(password)))

\* edit_user_password(username, password)
EditUserPassword(username, password) ==
    Mutate(set_password_hash(store, username, pwd_hash(password)))

DeleteUser(username) == Mutate(delete_user(store, username))

\* load(data), among the other mutations
LoadInto(data) == Mutate(load(store, data).st)

-----------------------------------------------------------------------------
(* Queries *)

Query(op, arg, result) ==
    /\ answer' = [op |-> op, arg |-> arg, result |-> result]
    /\ UNCHANGED <<store, config, tokens, loading>>

AllowedPermissions(package) ==
    Query("allowed_permissions", <<package>>,
          allowed_permissions(store, default_read, default_write, package))

GetAcl(package) ==
    Query("get_acl", <<package>>,
          get_acl(store, default_read, default_write, package))

HasPermission(userid, package, perm) ==
    Query("has_permission", <<userid, package, perm>>,
          has_permission(store, default_read, default_write, userid, package, perm))

VerifyUser(username, password) ==
    Query("verify_user", <<username, password>>,
          verify_user(store, mutable, username, password))

NeedAdmin == Query("need_admin", <<>>, need_admin(store, mutable))

InGroup(username, group) ==
    Query("in_group", <<username, group>>, in_group(store, username, group))

InAnyGroup(username, list) ==
    Query("in_any_group", <<username, list>>, in_any_group(store, username, list))

AllowRegisterToken ==
    Query("allow_register_token", <<>>, allow_register_token(signing_key))

-----------------------------------------------------------------------------
(* Signup tokens *)

Tick ==
    /\ now < MaxTime
    /\ now' = now + 1
    /\ answer' = NoAnswer
    /\ UNCHANGED <<store, config, token, expired, loading>>

GetSignupToken(username) ==
    LET result == get_signup_token(signing_key, now, username)
    IN /\ answer' = [op |-> "get_signup_token", arg |-> username, result |-> result]
       /\ token' = IF result.kind = "return"
                   THEN [str |-> result.value, username |-> username, at |-> now,
                         issued |-> TRUE]
                   ELSE token
       /\ expired' = (expired /\ token'.str = token.str)
       /\ UNCHANGED <<store, config, now, loading>>

ValidateSignupToken(tok) ==
    LET result == validate_signup_token(signing_key, token_expiration, now, tok)
    IN /\ answer' = [op |-> "validate_signup_token", arg |-> tok, result |-> result]
       /\ expired' = (expired \/ (/\ token.issued
                                  /\ tok = token.str
                                  /\ result.kind = "none"))
       /\ UNCHANGED <<store, config, now, token, loading>>

TokensToValidate ==
    MalformedTokens
    \cup (IF token.issued THEN {token.str} \cup AlteredSignature(token.str) ELSE {})

-----------------------------------------------------------------------------
(* dump and load *)

Load(data) ==
    /\ phase = "setup"
    /\ phase' = "loaded"
    /\ loaded' = data
    /\ before' = store
    /\ store' = load(store, data).st
    /\ raised' = load(store, data).raised
    /\ once' = [st |-> load(store, data).st, raised |-> load(store, data).raised]
    /\ calls' = load(store, data).calls
    /\ answer' = NoAnswer
    /\ UNCHANGED <<config, tokens, target, other>>

Reload ==
    /\ phase = "loaded"
    /\ phase' = "reloaded"
    /\ store' = load(store, loaded).st
    /\ raised' = load(store, loaded).raised
    /\ calls' = load(store, loaded).calls
    /\ answer' = NoAnswer
    /\ UNCHANGED <<config, tokens, loaded, before, once, target, other>>

\* load(data) on a backing store that fails after fail_at calls
LoadFailing(data, fail_at) ==
    LET run == load_run(store, data, TRUE, fail_at)
    IN /\ phase = "setup"
       /\ run.raised
       /\ phase' = "failed"
       /\ loaded' = data
       /\ before' = store
       /\ store' = run.st
       /\ raised' = TRUE
       /\ calls' = run.calls
       /\ answer' = NoAnswer
       /\ UNCHANGED <<config, tokens, once, target, other>>

\* load(data) again, after it has failed
Retry ==
    /\ phase = "failed"
    /\ phase' = "retried"
    /\ store' = load(store, loaded).st
    /\ raised' = load(store, loaded).raised
    /\ calls' = load(store, loaded).calls
    /\ answer' = NoAnswer
    /\ UNCHANGED <<config, tokens, loaded, before, once, target, other>>

\* load(data) while another administrator's operation reaches the store,
\* after load has made `at` calls
LoadInterleaved(data, operation, at, late) ==
    LET run == load_interleaved(store, data,
                   [op |-> operation.op, arg |-> operation.arg, at |-> at,
                    late |-> late, landed |-> FALSE, seen |-> EmptyStore])
    IN /\ phase = "setup"
       /\ run.other.landed
       /\ phase' = "interleaved"
       /\ loaded' = data
       /\ before' = store
       /\ store' = run.st
       /\ raised' = run.raised
       /\ calls' = run.calls
       /\ other' = run.other
       /\ answer' = NoAnswer
       /\ UNCHANGED <<config, tokens, once, target>>

Migrate ==
    /\ phase = "setup"
    /\ phase' = "migrated"
    /\ target' = load(EmptyStore, dump(store)).st
    /\ raised' = load(EmptyStore, dump(store)).raised
    /\ calls' = load(EmptyStore, dump(store)).calls
    /\ answer' = NoAnswer
    /\ UNCHANGED <<store, config, tokens, loaded, before, once, other>>

-----------------------------------------------------------------------------
(* Specifications *)

\* permission resolution over a store whose grants are made and revoked
InitPerm ==
    /\ InitCommon
    /\ store = SeededStore
    /\ \E d \in DefaultLists : default_read = d[1] /\ default_write = d[2]
    /\ signing_key = None
    /\ token_expiration = 1
    /\ mutable = TRUE

NextPerm ==
    \/ \E g \in UserGrants, add \in BOOLEAN :
            EditUserPermission(g[1], g[2], g[3], add)
    \/ \E g \in GroupGrants, add \in BOOLEAN :
            EditGroupPermission(g[1], g[2], g[3], add)
    \/ \E admin \in BOOLEAN : SetUserAdmin("alice", admin)
    \/ \E add \in BOOLEAN : EditUserGroup("bob", "dev", add)
    \/ \E package \in Packages : AllowedPermissions(package)
    \/ \E userid \in Users \cup {None}, package \in Packages, perm \in Perms :
            HasPermission(userid, package, perm)

SpecPerm == InitPerm /\ [][NextPerm]_vars

\* grants to users, groups and pseudo-groups, and the ACL of the package
NextAcl ==
    \/ \E g \in AclUserGrants, add \in BOOLEAN :
            EditUserPermission(g[1], g[2], g[3], add)
    \/ \E g \in AclGroupGrants, add \in BOOLEAN :
            EditGroupPermission(g[1], g[2], g[3], add)
    \/ \E admin \in BOOLEAN : SetUserAdmin("alice", admin)
    \/ \E package \in Packages : AllowedPermissions(package)
    \/ \E package \in Packages : GetAcl(package)

SpecAcl == InitPerm /\ [][NextAcl]_vars

\* signup tokens issued and validated as time passes
InitToken ==
    /\ InitCommon
    /\ store = EmptyStore
    /\ default_read = <<"authenticated">>
    /\ default_write = <<>>
    /\ signing_key \in Keys \cup {None}
    /\ token_expiration \in 1..MaxExpiration
    /\ mutable = TRUE

NextToken ==
    \/ Tick
    \/ \E username \in TokenUsers : GetSignupToken(username)
    \/ \E tok \in TokensToValidate : ValidateSignupToken(tok)
    \/ AllowRegisterToken
    \/ \E allow \in BOOLEAN : SetAllowRegister(allow)

SpecToken == InitToken /\ [][NextToken]_vars

\* a store is built, then a snapshot is loaded into it, or it is migrated
InitLoad ==
    /\ InitCommon
    /\ store = EmptyStore
    /\ default_read = <<"authenticated">>
    /\ default_write = <<>>
    /\ signing_key = None
    /\ token_expiration = 1
    /\ mutable = TRUE

NextLoad ==
    \/ \E username \in Users : Register(username, "h1")
    \/ \E username \in Users : ApproveUser(username)
    \/ \E username \in Users, admin \in BOOLEAN : SetUserAdmin(username, admin)
    \/ CreateGroup("dev")
    \/ \E username \in Users, add \in BOOLEAN : EditUserGroup(username, "dev", add)
    \/ \E add \in BOOLEAN : EditUserPermission("foo", "alice", "write", add)
    \/ \E group \in {"everyone", "dev"}, add \in BOOLEAN :
            EditGroupPermission("foo", group, "read", add)
    \/ \E allow \in BOOLEAN : SetAllowRegister(allow)
    \/ \E data \in Snapshots : Load(data)
    \/ Reload
    \/ Migrate

SpecLoad == InitLoad /\ [][NextLoad]_vars

\* a store is built, then a load fails part-way and is retried
NextRetry ==
    \/ \E username \in Users : Register(username, "h1")
    \/ \E username \in Users : ApproveUser(username)
    \/ CreateGroup("dev")
    \/ \E username \in Users, add \in BOOLEAN : EditUserGroup(username, "dev", add)
    \/ \E data \in Snapshots, fail_at \in 0..MaxFailAt : LoadFailing(data, fail_at)
    \/ Retry

SpecRetry == InitLoad /\ [][NextRetry]_vars

\* users are registered, approved, edited, deleted and loaded on a mutable
\* backend, or configured on one that is not, and the backend is queried
InitUser ==
    /\ InitCommon
    /\ mutable \in BOOLEAN
    /\ store \in (IF mutable THEN {EmptyStore} ELSE ConfiguredStores)
    /\ default_read = <<"authenticated">>
    /\ default_write = <<>>
    /\ signing_key = None
    /\ token_expiration = 1

NextUser ==
    \/ \E username \in Users : RegisterUser(username, "pw1")
    \/ \E username \in Users : ApproveUser(username)
    \/ \E username \in Users, admin \in BOOLEAN : SetUserAdmin(username, admin)
    \/ \E username \in Users, password \in Passwords :
            EditUserPassword(username, password)
    \/ \E username \in Users : DeleteUser(username)
    \/ \E data \in UserSnapshots : LoadInto(data)
    \/ \E username \in Users, password \in Passwords : VerifyUser(username, password)
    \/ NeedAdmin

SpecUser == InitUser /\ [][NextUser]_vars

\* users are made admins and members of groups, and memberships are asked for
NextGroup ==
    \/ \E username \in Users : Register(username, "h1")
    \/ \E username \in Users : ApproveUser(username)
    \/ \E username \in Users, admin \in BOOLEAN : SetUserAdmin(username, admin)
    \/ \E username \in Users : DeleteUser(username)
    \/ \E group \in Groups : CreateGroup(group)
    \/ \E group \in Groups, add \in BOOLEAN : EditUserGroup("bob", group, add)
    \/ \E username \in Users \cup {None}, group \in GroupNames :
            InGroup(username, group)
    \/ \E username \in Users \cup {None}, list \in GroupLists :
            InAnyGroup(username, list)

SpecGroup == InitLoad /\ [][NextGroup]_vars

\* a store is built, then a snapshot is loaded while another administrator
\* makes one operation
NextConcurrent ==
    \/ \E username \in Users : Register(username, "h1")
    \/ \E username \in Users : ApproveUser(username)
    \/ CreateGroup("dev")
    \/ \E username \in Users, add \in BOOLEAN : EditUserGroup(username, "dev", add)
    \/ \E data \in Snapshots, operation \in OtherOperations,
          at \in 0..MaxLandAt, late \in BOOLEAN :
            LoadInterleaved(data, operation, at, late)

SpecConcurrent == InitLoad /\ [][NextConcurrent]_vars

Spec == SpecLoad

-----------------------------------------------------------------------------
(* Claims about permission resolution, under SpecPerm *)

\* the package has an explicit user grant or an explicit group grant
HasGrant(s, package) ==
    \/ \E u \in Users : s.user_perms[package][u] # {}
    \/ \E g \in GrantGroups : s.group_perms[package][g] # {}

\* the permissions a dict of allowed permissions gives a principal
Granted(perms, principal) ==
    IF principal \in DOMAIN perms THEN ToSet(perms[principal]) ELSE {}

AskedAllowed == answer.op = "allowed_permissions"
AskedHas == answer.op = "has_permission"

\* C1: has_permission(package, perm) is true exactly when the requester is an
\* admin or perm is among the allowed permissions of the package for one of
\* the requester's effective principals.
C1_HasPermission ==
    AskedHas =>
        LET userid == answer.arg[1]
            perms == allowed_permissions(store, default_read, default_write,
                                         answer.arg[2])
        IN answer.result =
            (\/ (userid # None /\ is_admin(store, userid))
             \/ \E principal \in ToSet(effective_principals(store, userid)) :
                    answer.arg[3] \in Granted(perms, principal))

\* an admin is granted a permission that no entry of the package gives to any
\* of the admin's principals, while the package has explicit grants
C1_Witness ==
    /\ AskedHas
    /\ answer.arg[1] = "alice"
    /\ is_admin(store, "alice")
    /\ HasGrant(store, answer.arg[2])
    /\ \A principal \in ToSet(effective_principals(store, "alice")) :
          answer.arg[3] \notin
              Granted(allowed_permissions(store, default_read, default_write,
                                          answer.arg[2]), principal)
    /\ answer.result = TRUE

\* the principals of a default list
DefaultPrincipals(list) == {group_to_principal(g) : g \in ToSet(list)}

\* C2: for a package with no explicit user grant and no explicit group grant,
\* allowed_permissions is exactly the configured defaults: read for each
\* principal of default_read, write for each principal of default_write, both
\* for a principal of both lists, and no other principal.
C2_DefaultsWhenNoGrants ==
    (AskedAllowed /\ ~HasGrant(store, answer.arg[1])) =>
        /\ DOMAIN answer.result =
              DefaultPrincipals(default_read) \cup DefaultPrincipals(default_write)
        /\ \A principal \in DOMAIN answer.result :
              ToSet(answer.result[principal]) =
                  {perm \in Perms :
                      \/ perm = "read" /\ principal \in DefaultPrincipals(default_read)
                      \/ perm = "write" /\ principal \in DefaultPrincipals(default_write)}

\* a package without grants is resolved with a principal that is in both
\* default lists and one that is in default_read only
C2_Witness ==
    /\ AskedAllowed
    /\ ~HasGrant(store, answer.arg[1])
    /\ \E principal \in DOMAIN answer.result :
          ToSet(answer.result[principal]) = {"read", "write"}
    /\ \E principal \in DOMAIN answer.result :
          ToSet(answer.result[principal]) = {"read"}

\* C3: a package that has at least one explicit grant resolves to its explicit
\* grants only, with no entry derived from the defaults; the defaults apply
\* only while the package has no grant at all, also after revocations.
C3_GrantsSuppressDefaults ==
    AskedAllowed =>
        LET package == answer.arg[1]
            user_part == {"user:" \o u : u \in {x \in Users :
                                store.user_perms[package][x] # {}}}
            group_part == {group_to_principal(g) : g \in {x \in GrantGroups :
                                store.group_perms[package][x] # {}}}
        IN IF HasGrant(store, package)
           THEN /\ DOMAIN answer.result = user_part \cup group_part
                /\ \A u \in Users :
                      Granted(answer.result, "user:" \o u) =
                          store.user_perms[package][u]
                /\ \A g \in GrantGroups :
                      Granted(answer.result, group_to_principal(g)) =
                          store.group_perms[package][g]
           ELSE DOMAIN answer.result =
                   DefaultPrincipals(default_read) \cup DefaultPrincipals(default_write)

\* one user holds one permission on the package, the defaults name other
\* principals, and the result is that single entry
C3_Witness ==
    /\ AskedAllowed
    /\ answer.arg[1] = "foo"
    /\ default_read = <<"authenticated">>
    /\ store.user_perms["foo"]["alice"] = {"write"}
    /\ store.user_perms["foo"]["bob"] = {}
    /\ \A g \in GrantGroups : store.group_perms["foo"][g] = {}
    /\ answer.result = ("user:alice" :> <<"write">>)

\* the principal that a group name is said to stand for
StatedPrincipal(group) ==
    IF group \in {Everyone, Authenticated} \/ StartsWithGroup(group) THEN group
    ELSE IF group = "everyone" THEN Everyone
    ELSE IF group = "authenticated" THEN Authenticated
    ELSE IF group = "admin" THEN "admin"
    ELSE "group:" \o group

\* C15: allowed_permissions records the grants of a group, and the default
\* groups, under the principal of the group: Everyone, Authenticated and admin
\* for the pseudo-groups everyone, authenticated and admin, group:<g> for any
\* other group g; so a grant to the group admin is held by the principal
\* admin, which user_principals gives to an admin.
C15_PseudoGroups ==
    AskedAllowed =>
        LET package == answer.arg[1]
        IN IF HasGrant(store, package)
           THEN \A g \in GrantGroups :
                    store.group_perms[package][g] # {} =>
                        Granted(answer.result, StatedPrincipal(g)) =
                            store.group_perms[package][g]
           ELSE DOMAIN answer.result =
                    {StatedPrincipal(g) :
                        g \in ToSet(default_read) \cup ToSet(default_write)}

\* the principal strings of the model as Python orders them
SortedPrincipals ==
    <<"admin", "group:admin", "group:dev", "system.Authenticated",
      "system.Everyone", "user:alice", "user:bob">>
SortedPerms == <<"read", "write">>

Rank(list, x) == CHOOSE i \in DOMAIN list : list[i] = x

\* (principal, permission) of entry a sorts before that of entry b
SortsBefore(a, b) ==
    \/ Rank(SortedPrincipals, a[2]) < Rank(SortedPrincipals, b[2])
    \/ /\ a[2] = b[2]
       /\ Rank(SortedPerms, a[3]) < Rank(SortedPerms, b[3])

\* C16: get_acl(package) holds exactly one (Allow, principal, permission)
\* entry for each permission of each principal of allowed_permissions(package),
\* no entry twice and nothing else, sorted by principal, then by permission.
C16_AclSorted ==
    answer.op = "get_acl" =>
        LET acl == answer.result
            perms == allowed_permissions(store, default_read, default_write,
                                         answer.arg[1])
        IN /\ \A i \in DOMAIN acl :
                 /\ acl[i][1] = "Allow"
                 /\ acl[i][2] \in DOMAIN perms
                 /\ acl[i][3] \in ToSet(perms[acl[i][2]])
           /\ \A principal \in DOMAIN perms :
                 \A perm \in ToSet(perms[principal]) :
                    <<"Allow", principal, perm>> \in ToSet(acl)
           /\ \A i, j \in DOMAIN acl : i < j => SortsBefore(acl[i], acl[j])

-----------------------------------------------------------------------------
(* Claims about signup tokens, under SpecToken *)

NoColon(username) == \A i \in DOMAIN username : username[i] # ":"

Validated == answer.op = "validate_signup_token"

\* the second of the clock at which the token was issued: its issued-at field
IssuedAt == token.at \div TicksPerSecond

\* C4: with a signing key, the token issued for a username without ":" is
\* validated to that username at the moment it is issued, and to None when a
\* character of its signature has been altered.
C4_TokenRoundTrip ==
    (signing_key # None /\ token.issued /\ NoColon(token.username) /\ Validated) =>
        /\ (answer.arg = token.str /\ token.at = now) =>
                answer.result = Return(token.username)
        /\ answer.arg \in AlteredSignature(token.str) => answer.result = ReturnNone

\* a token for a two-character username is validated as soon as it is issued
C4_Witness ==
    /\ Validated
    /\ token.issued
    /\ token.username = <<"a", "b">>
    /\ token.at = now
    /\ now > 0
    /\ answer.arg = token.str
    /\ answer.result = Return(<<"a", "b">>)

\* C5: a correctly signed token whose issued-at second is t0 is rejected at
\* every time after t0 + token_expiration and accepted at every time up to and
\* including t0 + token_expiration; once rejected it is never accepted again.
C5_TokenExpiry ==
    (token.issued /\ NoColon(token.username) /\ Validated /\ answer.arg = token.str) =>
        /\ now > (IssuedAt + token_expiration) * TicksPerSecond =>
                answer.result = ReturnNone
        /\ now <= (IssuedAt + token_expiration) * TicksPerSecond =>
                answer.result = Return(token.username)
        /\ expired => answer.result = ReturnNone

\* the token is accepted at the last instant of its window
C5_Witness ==
    /\ Validated
    /\ token.issued
    /\ IssuedAt > 0
    /\ answer.arg = token.str
    /\ now = (IssuedAt + token_expiration) * TicksPerSecond
    /\ answer.result = Return(token.username)

\* C6: validate_signup_token never raises, whatever the token.
C6_ValidateNeverRaises == Validated => answer.result.kind # "raise"

\* C7: without a signing key get_signup_token raises and issues nothing,
\* validate_signup_token returns None and allow_register_token() is false;
\* with a signing key allow_register_token() is true.
C7_SigningKeyGates ==
    /\ signing_key = None =>
          /\ ~token.issued
          /\ answer.op = "get_signup_token" => answer.result = Raise("RuntimeError")
          /\ Validated => answer.result = ReturnNone
          /\ answer.op = "allow_register_token" => answer.result = FALSE
    /\ signing_key # None =>
          (answer.op = "allow_register_token" => answer.result = TRUE)

\* without a signing key a token that does not even parse validates to None
C7_Witness ==
    /\ signing_key = None
    /\ store.allow_register
    /\ Validated
    /\ answer.arg = <<"u">>
    /\ answer.result = ReturnNone

-----------------------------------------------------------------------------
(* Claims about dump and load, under SpecLoad *)

\* C8: load(data) applied twice leaves the store as load(data) applied once
\* left it, and the second application raises nothing.
C8_LoadIdempotent ==
    (phase = "reloaded" /\ ~once.raised) => (store = once.st /\ ~raised)

\* C9: load(dump()) into an empty store reproduces, for every user of the
\* source store, the allowed permissions of every package, the user's groups,
\* admin flag and pending or approved status.
C9_DumpLoadEquivalent ==
    phase = "migrated" =>
        \A u \in Present(store) :
            /\ \A package \in Packages :
                  allowed_permissions(target, default_read, default_write, package)
                  = allowed_permissions(store, default_read, default_write, package)
            /\ ToSet(user_groups(target, u)) = ToSet(user_groups(store, u))
            /\ target.users[u].admin = store.users[u].admin
            /\ target.users[u].status = store.users[u].status

\* everything of s is in t: users, groups, memberships and grants
Contains(t, s) ==
    /\ Present(s) \subseteq Present(t)
    /\ s.groups \subseteq t.groups
    /\ \A g \in Groups : s.members[g] \subseteq t.members[g]
    /\ \A p \in Packages :
          /\ \A u \in Users : s.user_perms[p][u] \subseteq t.user_perms[p][u]
          /\ \A g \in GrantGroups : s.group_perms[p][g] \subseteq t.group_perms[p][g]

\* C10: every user, group, group membership and permission grant that the
\* store held before load is still held after it.
C10_LoadAdditive ==
    phase \in {"loaded", "reloaded"} => Contains(store, before)

\* a group that held alice is declared with bob only, and holds both after
C10_Witness ==
    /\ phase = "loaded"
    /\ before.members["dev"] = {"alice"}
    /\ before.user_perms["foo"]["alice"] = {"write"}
    /\ loaded.groups = ("dev" :> <<"bob">>)
    /\ store.members["dev"] = {"alice", "bob"}

\* load has returned, without raising
Loaded == phase \in {"loaded", "reloaded"} /\ ~raised

\* C11: after load(data) has completed, every user of data["users"] has the
\* admin flag that data declares for it, false when the entry has no admin
\* field, whatever the flag was and whether or not the user existed, and the
\* allow-register flag of the store is data["allow_register"].
C11_LoadOverwrites ==
    Loaded =>
        /\ \A i \in DOMAIN loaded.users :
              store.users[loaded.users[i].username].admin =
                  (IF "admin" \in DOMAIN loaded.users[i]
                   THEN loaded.users[i].admin ELSE FALSE)
        /\ store.allow_register = loaded.allow_register

\* an admin that exists is declared without an admin field while registration
\* is closed: load revokes the flag and opens registration
C11_Witness ==
    /\ phase = "loaded"
    /\ ~raised
    /\ before.users["alice"].status = "approved"
    /\ before.users["alice"].admin
    /\ ~before.allow_register
    /\ loaded.users = <<[username |-> "alice", password |-> "h2"]>>
    /\ loaded.allow_register
    /\ ~store.users["alice"].admin
    /\ store.allow_register

\* the entries of data["users"] and of data["pending_users"]
DeclaredUsers == ToSet(loaded.users)
DeclaredPending == ToSet(DictGet(loaded, "pending_users", <<>>))

Names(entries) == {e.username : e \in entries}

\* C18: a user of data["users"] that was absent is approved after load, with
\* the declared hash; a user that only data["pending_users"] declares and that
\* was absent is pending; a user that was present, pending or approved, keeps
\* its status and its hash.
C18_UserLifecycle ==
    phase \in {"loaded", "reloaded"} =>
        \A u \in Users :
            /\ before.users[u].status # "none" =>
                  /\ store.users[u].status = before.users[u].status
                  /\ store.users[u].password = before.users[u].password
            /\ (before.users[u].status = "none" /\ u \in Names(DeclaredUsers)) =>
                  /\ store.users[u].status = "approved"
                  /\ \E e \in DeclaredUsers :
                        e.username = u /\ store.users[u].password = e.password
            /\ (/\ before.users[u].status = "none"
                /\ u \in Names(DeclaredPending) \ Names(DeclaredUsers)) =>
                  /\ store.users[u].status = "pending"
                  /\ \E e \in DeclaredPending :
                        e.username = u /\ store.users[u].password = e.password

\* a pending user is declared as a user and stays pending with its own hash,
\* while an absent user that is declared pending is registered
C18_Witness ==
    /\ phase = "loaded"
    /\ before.users["alice"].status = "pending"
    /\ before.users["bob"].status = "none"
    /\ loaded.users = <<UserEntry("alice", TRUE)>>
    /\ store.users["alice"].status = "pending"
    /\ store.users["alice"].password = "h1"
    /\ store.users["bob"].status = "pending"
    /\ store.users["bob"].password = "h2"

\* the steps of load, in order
Steps ==
    <<"users", "groups", "pending_users", "group_permissions",
      "user_permissions", "allow_register">>

\* the pending users of data that were absent and are declared members of group
AbsentPendingMembers(group) ==
    {u \in Names(DeclaredPending) \ Names(DeclaredUsers) :
        /\ before.users[u].status = "none"
        /\ u \in ToSet(loaded.groups[group])}

\* edit_user_group(username, group, True) was called on a store without the user
EditedWhileAbsent(username, group) ==
    \E i \in DOMAIN calls :
        /\ calls[i].op = "edit_user_group"
        /\ calls[i].arg = <<username, group, Str(TRUE)>>
        /\ calls[i].pre.users[username].status = "none"

\* C19: load makes its calls in the order users, groups and memberships,
\* pending users, group grants, user grants, allow-register flag; a pending
\* user of the snapshot that was absent and is declared a member of a group
\* has its membership edited while it does not exist, and after load is
\* pending and not a member of the group.
C19_LoadOrder ==
    phase = "loaded" =>
        /\ \A i, j \in DOMAIN calls :
              i < j => Rank(Steps, calls[i].step) <= Rank(Steps, calls[j].step)
        /\ \A group \in DOMAIN loaded.groups :
              \A u \in AbsentPendingMembers(group) :
                  /\ EditedWhileAbsent(u, group)
                  /\ store.users[u].status = "pending"
                  /\ u \notin store.members[group]

\* a pending user of the snapshot is declared a member of dev next to a user
\* that exists: the membership of the one is attached, that of the other not
C19_Witness ==
    /\ phase = "loaded"
    /\ ~raised
    /\ loaded.groups = ("dev" :> <<"alice", "bob">>)
    /\ AbsentPendingMembers("dev") = {"bob"}
    /\ EditedWhileAbsent("bob", "dev")
    /\ store.users["bob"].status = "pending"
    /\ store.members["dev"] = {"alice"}

\* the members a load can attach: the users that existed and the declared ones
Attachable == Present(before) \cup Names(DeclaredUsers)

\* C20: load calls create_group only for a group that the store does not
\* hold, never for a group that exists, with or without members, and after
\* load the members of a declared group are those it had and those declared.
C20_CreateGroupIfAbsent ==
    phase \in {"loaded", "reloaded"} =>
        /\ \A i \in DOMAIN calls :
              calls[i].op = "create_group" =>
                  calls[i].arg[1] \notin calls[i].pre.groups
        /\ phase = "loaded" =>
              \A group \in DOMAIN loaded.groups :
                  store.members[group] =
                      before.members[group]
                      \cup (ToSet(loaded.groups[group]) \cap Attachable)

\* the calls of _register that the last load made for the username
RegisterCalls(username) ==
    {i \in DOMAIN calls : calls[i].op = "_register" /\ calls[i].arg[1] = username}

\* C21: one load calls _register at most once for a username, and never for
\* a username that exists, pending or approved, when the call is made, also
\* when the snapshot names a user in both lists or twice among the pending.
C21_RegisterOnce ==
    phase \in {"loaded", "reloaded"} =>
        \A u \in Users :
            /\ Cardinality(RegisterCalls(u)) <= 1
            /\ \A i \in RegisterCalls(u) : calls[i].pre.users[u].status = "none"

-----------------------------------------------------------------------------
(* Claims about a load that fails and is retried, under SpecRetry *)

\* C12: when load(data) has failed after some of its calls and is run again
\* with the same data, the store it leaves is the store that one load(data)
\* that completes leaves from the same initial store, and the retry does not
\* raise.
C12_RetryReachesSameState ==
    (phase = "retried" /\ ~load(before, loaded).raised) =>
        (store = load(before, loaded).st /\ ~raised)

-----------------------------------------------------------------------------
(* Claims about users, under SpecUser, and about groups, under SpecGroup *)

\* C13: on a mutable backend verify_user(username, password) is false for a
\* pending user, also when the password matches the stored hash, false for a
\* user that is unknown or was deleted, and for an approved user true exactly
\* when the password verifies against the stored hash.
C13_VerifyUser ==
    (mutable /\ answer.op = "verify_user") =>
        LET user == store.users[answer.arg[1]]
        IN answer.result =
              (/\ user.status = "approved"
               /\ user.password = pwd_hash(answer.arg[2]))

\* a pending user gives the password it registered with and is rejected
C13_Witness ==
    /\ mutable
    /\ answer.op = "verify_user"
    /\ store.users[answer.arg[1]].status = "pending"
    /\ store.users[answer.arg[1]].password = pwd_hash(answer.arg[2])
    /\ answer.result = FALSE

\* C14: need_admin() is true exactly when the backend is mutable and no
\* approved user has the admin flag; a pending user with the admin flag does
\* not make it false, and on a backend that is not mutable it is false.
C14_NeedAdmin ==
    answer.op = "need_admin" =>
        answer.result =
            (/\ mutable
             /\ ~\E u \in Users : /\ store.users[u].status = "approved"
                                  /\ store.users[u].admin)

\* the only user with the admin flag is pending, and an admin is needed
C14_Witness ==
    /\ mutable
    /\ answer.op = "need_admin"
    /\ store.users["alice"].status = "pending"
    /\ store.users["alice"].admin
    /\ store.users["bob"].status = "approved"
    /\ answer.result = TRUE

\* the user is a stored member of the stored group
StoredMember(s, username, group) ==
    group \in s.groups /\ username \in s.members[group]

\* in_group as stated: the admin flag alone decides for the group admin
InGroupStated(s, username, group) ==
    IF group \in {"everyone", Everyone} THEN TRUE
    ELSE IF username = None THEN FALSE
    ELSE IF group \in {"authenticated", Authenticated} THEN TRUE
    ELSE IF group = "admin" THEN is_admin(s, username)
    ELSE StoredMember(s, username, group)

\* in_group with the membership lookup that follows the admin flag
InGroupLookup(s, username, group) ==
    IF group \in {"everyone", Everyone} THEN TRUE
    ELSE IF username = None THEN FALSE
    ELSE IF group \in {"authenticated", Authenticated} THEN TRUE
    ELSE IF group = "admin" /\ is_admin(s, username) THEN TRUE
    ELSE StoredMember(s, username, group)

\* C17: in_group is true for everyone, also for the anonymous user; for a
\* named user it is true for authenticated, true for admin exactly when the
\* user has the admin flag, and for any other group true exactly when the
\* user is a stored member; for the anonymous user it is false for every
\* group but everyone; in_any_group is the OR of in_group over the list.
C17_InGroup ==
    /\ answer.op = "in_group" =>
          answer.result = InGroupStated(store, answer.arg[1], answer.arg[2])
    /\ answer.op = "in_any_group" =>
          answer.result = \E i \in DOMAIN answer.arg[2] :
                              InGroupStated(store, answer.arg[1], answer.arg[2][i])

\* C17, amended: as C17, but for admin in_group is true when the user has
\* the admin flag or is a stored member of a stored group named admin.
C17_InGroupAmended ==
    /\ answer.op = "in_group" =>
          answer.result = InGroupLookup(store, answer.arg[1], answer.arg[2])
    /\ answer.op = "in_any_group" =>
          answer.result = \E i \in DOMAIN answer.arg[2] :
                              InGroupLookup(store, answer.arg[1], answer.arg[2][i])

\* a user without the admin flag is a member of a stored group named admin
C17_Witness ==
    /\ answer.op = "in_group"
    /\ answer.arg = <<"bob", "admin">>
    /\ ~is_admin(store, "bob")
    /\ StoredMember(store, "bob", "admin")
    /\ answer.result = TRUE

-----------------------------------------------------------------------------
(* Claims about a load that runs next to another administrator, under
   SpecConcurrent *)

\* what the other administrator's operation added is in the store
OtherKept ==
    CASE other.op = "edit_user_group" ->
            (/\ other.seen.users[other.arg[1]].status # "none"
             /\ other.arg[2] \in other.seen.groups) =>
                other.arg[1] \in store.members[other.arg[2]]
      [] other.op = "edit_group_permission" ->
            other.arg[3] \in store.group_perms[other.arg[1]][other.arg[2]]
      [] other.op = "edit_user_permission" ->
            other.arg[3] \in store.user_perms[other.arg[1]][other.arg[2]]
      [] OTHER -> TRUE

\* the memberships and the grants that the snapshot declares are in the store
DeclaredKept ==
    /\ \A group \in DOMAIN loaded.groups :
          (ToSet(loaded.groups[group]) \cap Attachable) \subseteq store.members[group]
    /\ \A package \in DOMAIN loaded.packages.groups :
          \A group \in DOMAIN loaded.packages.groups[package] :
              ToSet(loaded.packages.groups[package][group])
                  \subseteq store.group_perms[package][group]
    /\ \A package \in DOMAIN loaded.packages.users :
          \A user \in DOMAIN loaded.packages.users[package] :
              ToSet(loaded.packages.users[package][user])
                  \subseteq store.user_perms[package][user]

\* load has called _register for no user that existed when it was called
NoSecondRegister ==
    \A u \in Users :
        \A i \in RegisterCalls(u) : calls[i].pre.users[u].status = "none"

\* a load that runs next to one operation of another administrator, with a
\* snapshot that load alone would have loaded without raising
Interleaved == phase = "interleaved" /\ ~load(before, loaded).raised

\* C22: when load runs interleaved with an atomic operation of another
\* administrator, what that operation added is in the final store, the
\* memberships and grants of the snapshot are there too, and load registers
\* no username that the other administrator registered after load began.
C22_NoLostUpdate ==
    Interleaved => (OtherKept /\ DeclaredKept /\ NoSecondRegister)

====
